---- MODULE Spec2Model ----
(***************************************************************************)
(* Multi-binned interval tree (package interval, interval.go).             *)
(*                                                                         *)
(* The tree routes closed intervals over unsigned words by successive     *)
(* radix digits of their endpoints into a fixed-fanout trie.  Leaves hold  *)
(* parallel lists (Intervals, Indices); a leaf whose length is a positive  *)
(* multiple of maxLeafFanout and whose shouldSplit() is true is replaced   *)
(* by a fresh hierarchical node into which its entries are replayed.       *)
(*                                                                         *)
(* Scaling.  The arithmetic below is written for a word of WordBits bits,  *)
(* a radix digit of branchingFactorPower bits and a leaf threshold of      *)
(* maxLeafFanout entries.  The source fixes these to 64, 4 and 16; the     *)
(* model instantiates them with 3, 1 and 2 so that every word, every       *)
(* interval and every query can be enumerated.  WordBits is more than      *)
(* twice branchingFactorPower, as in the source, so that the digit read    *)
(* by the routing (the top bits) and the bits kept by bucketMask (all but  *)
(* the low bits) are different things, as they are in the source.          *)
(***************************************************************************)
EXTENDS Integers, Sequences, FiniteSets, TLC

\* uint64 in the source: the width of Interval.Start and Interval.End.
WordBits == 3

\* interval.go:15
branchingFactorPower == 1

\* interval.go:34
maxLeafFanout == 2

\* Longest sequence of Tree.Add calls explored by Spec.
MaxAdds == 3

\* Longest sequence of Tree.Add calls explored by SpecQuery.
MaxQueryAdds == 3

\* Longest sequence of Add calls on the leaf explored by SpecLeaf.
MaxLeafAdds == 3

\* Longest sequence of Add calls on the leaf explored by SpecCluster.
MaxClusterAdds == 5

\* Longest sequence of Tree.Add calls explored by SpecDeep.
MaxDeepAdds == 5

RECURSIVE Pow2(_)
Pow2(n) == IF n = 0 THEN 1 ELSE 2 * Pow2(n - 1)

\* The number of words: arithmetic on Start and End is modulo this.
Modulus == Pow2(WordBits)

Word == 0 .. (Modulus - 1)

\* math.MaxUint64
MaxUint64 == Modulus - 1

\* interval.go:19   1 << branchingFactorPower
hierarchicalFanout == Pow2(branchingFactorPower)

\* interval.go:23   1<<branchingFactorPower - 1
offsetMask == Pow2(branchingFactorPower) - 1

\* x & bucketMask with bucketMask = ^offsetMask (interval.go:27): the low
\* branchingFactorPower bits of x are cleared.
AndBucketMask(x) == x - (x % (offsetMask + 1))

\* x << branchingFactorPower on a word: the top digit is shifted out.
ShiftLeft(x) == (x * Pow2(branchingFactorPower)) % Modulus

\* x >> (64 - branchingFactorPower): the top digit of x.
BucketIndex(x) == x \div Pow2(WordBits - branchingFactorPower)

Interval == [Start : Word, End : Word]

WellFormed == {iv \in Interval : iv.Start <= iv.End}

Value == {"a", "b"}

\* The queries of the claims: start <= end.
Queries == {q \in Interval : q.Start <= q.End}

(***************************************************************************)
(* Nodes.  A nil child slot, a leafNode, a hierarchicalNode.  Overflow is  *)
(* not a node: it is the outcome of an Add whose recursion never returns   *)
(* (the Go runtime ends the process with "fatal error: stack overflow").   *)
(***************************************************************************)
Nil == [kind |-> "nil"]

Overflow == [kind |-> "overflow"]

\* &leafNode{}
EmptyLeaf == [kind |-> "leaf", Indices |-> <<>>, Intervals |-> <<>>]

\* newHierarchicalNode(): hierarchicalFanout nil children.  Child i of the
\* source is Children[i + 1] here (sequences start at 1).
newHierarchicalNode ==
    [kind |-> "hier", Children |-> [i \in 1 .. hierarchicalFanout |-> Nil]]

(***************************************************************************)
(* leafNode.shouldSplit                                                    *)
(***************************************************************************)
\* Mutant of shouldSplit: the loop over the end counts is missing.
shouldSplitStartsOnly(l) ==
    LET n == Len(l.Intervals)
        startCount(m) ==
            Cardinality({i \in 1 .. n : AndBucketMask(l.Intervals[i].Start) = m})
        startKeys == {AndBucketMask(l.Intervals[i].Start) : i \in 1 .. n}
    IN  \E m \in startKeys : startCount(m) # 0 /\ startCount(m) # n

shouldSplit(l) ==
    LET n == Len(l.Intervals)
        startCount(m) ==
            Cardinality({i \in 1 .. n : AndBucketMask(l.Intervals[i].Start) = m})
        endCount(m) ==
            Cardinality({i \in 1 .. n : AndBucketMask(l.Intervals[i].End) = m})
        startKeys == {AndBucketMask(l.Intervals[i].Start) : i \in 1 .. n}
        endKeys == {AndBucketMask(l.Intervals[i].End) : i \in 1 .. n}
    IN  \/ \E m \in startKeys : startCount(m) # 0 /\ startCount(m) # n
        \/ \E m \in endKeys : endCount(m) # 0 /\ endCount(m) # n

(***************************************************************************)
(* Add.  hierarchicalNode.Add and leafNode.Add call each other.  `calls`  *)
(* is the set of leafNode.Add activations (receiver, interval, index)     *)
(* that are on the call stack and have taken the promotion branch.  The   *)
(* code is deterministic and the fresh hierarchical node it builds        *)
(* depends on the receiver alone, so an activation that is entered again  *)
(* with the same receiver and arguments while it is still active repeats  *)
(* itself without end: the result is Overflow.                            *)
(***************************************************************************)
RECURSIVE hierarchicalAddFrom(_, _, _, _, _)
RECURSIVE leafAdd(_, _, _, _)
RECURSIVE replay(_, _, _, _)

nodeAdd(n, interval, valuesIndex, calls) ==
    IF n.kind = "leaf"
    THEN leafAdd(n, interval, valuesIndex, calls)
    ELSE hierarchicalAddFrom(n, interval, valuesIndex,
                             BucketIndex(interval.Start), calls)

\* Mutant of hierarchicalAddFrom: the start is not reset to 0 in the
\* buckets after the first.
RECURSIVE hierarchicalAddFromKeepsStart(_, _, _, _, _)
hierarchicalAddFromKeepsStart(h, interval, valuesIndex, i, calls) ==
    LET endBucketIndex == BucketIndex(interval.End)
        newInterval ==
            [Start |-> ShiftLeft(interval.Start),
             End |-> IF i = endBucketIndex
                     THEN ShiftLeft(interval.End) ELSE MaxUint64]
        child == IF h.Children[i + 1] = Nil THEN EmptyLeaf
                 ELSE h.Children[i + 1]
        r == nodeAdd(child, newInterval, valuesIndex, calls)
    IN  IF i > endBucketIndex THEN h
        ELSE IF r = Overflow THEN Overflow
        ELSE hierarchicalAddFromKeepsStart([h EXCEPT !.Children[i + 1] = r],
                                           interval, valuesIndex, i + 1, calls)

\* Mutant of hierarchicalAddFrom: the node a leaf's Add returns is not
\* stored (h.Children[i].Add(newInterval, valuesIndex) without assignment),
\* so the hierarchical node of a promotion is lost.
RECURSIVE hierarchicalAddFromDropsReturn(_, _, _, _, _)
hierarchicalAddFromDropsReturn(h, interval, valuesIndex, i, calls) ==
    LET startBucketIndex == BucketIndex(interval.Start)
        endBucketIndex == BucketIndex(interval.End)
        newInterval ==
            [Start |-> IF i > startBucketIndex
                       THEN 0 ELSE ShiftLeft(interval.Start),
             End |-> IF i = endBucketIndex
                     THEN ShiftLeft(interval.End) ELSE MaxUint64]
        child == IF h.Children[i + 1] = Nil THEN EmptyLeaf
                 ELSE h.Children[i + 1]
        r == nodeAdd(child, newInterval, valuesIndex, calls)
        kept == IF child.kind = "leaf" /\ r.kind = "hier" THEN child ELSE r
    IN  IF i > endBucketIndex THEN h
        ELSE IF r = Overflow THEN Overflow
        ELSE hierarchicalAddFromDropsReturn([h EXCEPT !.Children[i + 1] = kept],
                                            interval, valuesIndex, i + 1, calls)

\* Mutant of hierarchicalAddFrom: the loop body runs for the start bucket
\* before the bound is tested (a do-while loop).
RECURSIVE hierarchicalAddFromAtLeastOnce(_, _, _, _, _)
hierarchicalAddFromAtLeastOnce(h, interval, valuesIndex, i, calls) ==
    LET startBucketIndex == BucketIndex(interval.Start)
        endBucketIndex == BucketIndex(interval.End)
        newInterval ==
            [Start |-> IF i > startBucketIndex
                       THEN 0 ELSE ShiftLeft(interval.Start),
             End |-> IF i = endBucketIndex
                     THEN ShiftLeft(interval.End) ELSE MaxUint64]
        child == IF h.Children[i + 1] = Nil THEN EmptyLeaf
                 ELSE h.Children[i + 1]
        r == nodeAdd(child, newInterval, valuesIndex, calls)
    IN  IF i > endBucketIndex /\ i # startBucketIndex THEN h
        ELSE IF r = Overflow THEN Overflow
        ELSE hierarchicalAddFromAtLeastOnce([h EXCEPT !.Children[i + 1] = r],
                                            interval, valuesIndex, i + 1, calls)

\* The loop of hierarchicalNode.Add from bucket i on.
hierarchicalAddFrom(h, interval, valuesIndex, i, calls) ==
    LET startBucketIndex == BucketIndex(interval.Start)
        endBucketIndex == BucketIndex(interval.End)
        newInterval ==
            [Start |-> IF i > startBucketIndex
                       THEN 0 ELSE ShiftLeft(interval.Start),
             End |-> IF i = endBucketIndex
                     THEN ShiftLeft(interval.End) ELSE MaxUint64]
        child == IF h.Children[i + 1] = Nil THEN EmptyLeaf
                 ELSE h.Children[i + 1]
        r == nodeAdd(child, newInterval, valuesIndex, calls)
    IN  IF i > endBucketIndex THEN h
        ELSE IF r = Overflow THEN Overflow
        ELSE hierarchicalAddFrom([h EXCEPT !.Children[i + 1] = r],
                                 interval, valuesIndex, i + 1, calls)

hierarchicalAdd(h, interval, valuesIndex, calls) ==
    hierarchicalAddFrom(h, interval, valuesIndex,
                        BucketIndex(interval.Start), calls)

\* Mutant of replay: the range starts at the second entry.
RECURSIVE replaySkipsFirst(_, _, _, _)
replaySkipsFirst(h, l, i, calls) ==
    IF i > Len(l.Intervals) THEN h
    ELSE IF i = 1 THEN replaySkipsFirst(h, l, 2, calls)
    ELSE LET r == hierarchicalAdd(h, l.Intervals[i], l.Indices[i], calls)
         IN  IF r = Overflow THEN Overflow
             ELSE replaySkipsFirst(r, l, i + 1, calls)

\* for i, interval := range l.Intervals { h.Add(interval, l.Indices[i]) }
replay(h, l, i, calls) ==
    IF i > Len(l.Intervals) THEN h
    ELSE LET r == hierarchicalAdd(h, l.Intervals[i], l.Indices[i], calls)
         IN  IF r = Overflow THEN Overflow
             ELSE replay(r, l, i + 1, calls)

\* Mutant of promotes: the check is made once, at length maxLeafFanout.
promotesOnce(l) ==
    /\ Len(l.Intervals) = maxLeafFanout
    /\ shouldSplit(l)

\* Mutant of promotes: the leaf is converted as soon as it is full.
promotesWhenFull(l) == Len(l.Intervals) + 1 >= maxLeafFanout

\* The condition of the promotion branch of leafNode.Add.
promotes(l) ==
    /\ Len(l.Intervals) > 0
    /\ Len(l.Intervals) % maxLeafFanout = 0
    /\ shouldSplit(l)

\* Mutant of leafAdd: the append branch appends the index twice.
leafAddIndexTwice(l, interval, valuesIndex, calls) ==
    IF promotes(l)
    THEN IF <<l, interval, valuesIndex>> \in calls THEN Overflow
         ELSE LET inner == calls \cup {<<l, interval, valuesIndex>>}
                  h == replay(newHierarchicalNode, l, 1, inner)
              IN  IF h = Overflow THEN Overflow
                  ELSE hierarchicalAdd(h, interval, valuesIndex, inner)
    ELSE [l EXCEPT !.Intervals = Append(@, interval),
                   !.Indices = Append(Append(@, valuesIndex), valuesIndex)]

leafAdd(l, interval, valuesIndex, calls) ==
    IF promotes(l)
    THEN IF <<l, interval, valuesIndex>> \in calls THEN Overflow
         ELSE LET inner == calls \cup {<<l, interval, valuesIndex>>}
                  h == replay(newHierarchicalNode, l, 1, inner)
              IN  IF h = Overflow THEN Overflow
                  ELSE hierarchicalAdd(h, interval, valuesIndex, inner)
    ELSE [l EXCEPT !.Intervals = Append(@, interval),
                   !.Indices = Append(@, valuesIndex)]

(***************************************************************************)
(* AllIntersections on nodes: the set of value indices (valueIndices).     *)
(***************************************************************************)
\* Mutant of leafAllIntersections: the overlap test treats the intervals as
\* half-open.
leafAllIntersectionsHalfOpen(l, start, end) ==
    IF start = 0 /\ end = MaxUint64
    THEN {l.Indices[i] : i \in 1 .. Len(l.Intervals)}
    ELSE {l.Indices[i] : i \in {j \in 1 .. Len(l.Intervals) :
              ~(end <= l.Intervals[j].Start \/ start > l.Intervals[j].End)}}

leafAllIntersections(l, start, end) ==
    IF start = 0 /\ end = MaxUint64
    THEN {l.Indices[i] : i \in 1 .. Len(l.Intervals)}
    ELSE {l.Indices[i] : i \in {j \in 1 .. Len(l.Intervals) :
              ~(end < l.Intervals[j].Start \/ start > l.Intervals[j].End)}}

RECURSIVE nodeAllIntersections(_, _, _)

\* One iteration of the loop of hierarchicalNode.AllIntersections: what
\* child i contributes to the query (start, end).
childAllIntersections(h, i, start, end) ==
    LET startBucketIndex == BucketIndex(start)
        endBucketIndex == BucketIndex(end)
        bucketOffsetStart ==
            IF i > startBucketIndex THEN 0 ELSE ShiftLeft(start)
        bucketOffsetEnd ==
            IF i = endBucketIndex THEN ShiftLeft(end) ELSE MaxUint64
    IN  IF h.Children[i + 1] = Nil THEN {}
        ELSE nodeAllIntersections(h.Children[i + 1],
                                  bucketOffsetStart, bucketOffsetEnd)

\* matchingIndices.Merge(intersections) over the buckets of the query.
hierarchicalAllIntersections(h, start, end) ==
    UNION {childAllIntersections(h, i, start, end) :
              i \in BucketIndex(start) .. BucketIndex(end)}

nodeAllIntersections(n, start, end) ==
    IF n.kind = "leaf"
    THEN leafAllIntersections(n, start, end)
    ELSE hierarchicalAllIntersections(n, start, end)

(***************************************************************************)
(* tree.AllIntersections.  The index set is a Go map; `for index := range  *)
(* indices` visits every key once, in an order the language leaves         *)
(* unspecified.  Every order is a possible return value.                   *)
(***************************************************************************)
\* The orders in which a map with key set S can be ranged over.
RangeOrders(S) ==
    {p \in [1 .. Cardinality(S) -> S] :
        \A i, j \in 1 .. Cardinality(S) : p[i] = p[j] => i = j}

\* Mutant of Materialise: the store is read at the position of the loop,
\* not at the index.
MaterialiseByPosition(store, p) == [i \in 1 .. Len(p) |-> store[i]]

\* The values appended while ranging over the indices in order p.
Materialise(store, p) == [i \in 1 .. Len(p) |-> store[p[i] + 1]]

\* Mutant of treeAllIntersections: the results of the root's buckets are
\* appended to one another instead of merged into one index set.
RECURSIVE BucketOrders(_, _, _, _)
BucketOrders(root, i, start, end) ==
    IF i > BucketIndex(end) THEN {<<>>}
    ELSE {p \o rest :
             p \in RangeOrders(childAllIntersections(root, i, start, end)),
             rest \in BucketOrders(root, i + 1, start, end)}

treeAllIntersectionsPerBucket(root, store, start, end) ==
    LET orders == BucketOrders(root, BucketIndex(start), start, end)
    IN  {[values |-> Materialise(store, p), found |-> Len(p) > 0, order |-> p] :
            p \in orders}

\* What tree.AllIntersections(start, end) can return on (root, store).
\* `order` is the order in which the indices were visited.
treeAllIntersections(root, store, start, end) ==
    LET indices == nodeAllIntersections(root, start, end)
    IN  IF Cardinality(indices) = 0
        THEN {[values |-> <<>>, found |-> FALSE, order |-> <<>>]}
        ELSE {[values |-> Materialise(store, p), found |-> TRUE, order |-> p] :
                 p \in RangeOrders(indices)}

(***************************************************************************)
(* State.  Root and Values are the tree's fields.  `added` records the     *)
(* (interval, value) pairs passed to Add in call order (the reference      *)
(* list the tests compare against).  `out` is what the last                *)
(* AllIntersections call returned.  `crashed` is set when an Add ran out   *)
(* of stack.  `leaf` is the node of the leaf-level tests                   *)
(* (var leaf Node = &LeafNode{}; leaf = leaf.Add(...)): it is no part of   *)
(* the tree.                                                               *)
(***************************************************************************)
VARIABLES Root, Values, added, out, crashed, leaf

vars == <<Root, Values, added, out, crashed, leaf>>

NoCall == [op |-> "none"]

\* New(), and an empty leaf for the leaf-level operations.
Init ==
    /\ Root = newHierarchicalNode
    /\ Values = <<>>
    /\ added = <<>>
    /\ out = NoCall
    /\ crashed = FALSE
    /\ leaf = EmptyLeaf

\* Mutant of TreeAdd: the index is read after the value is appended.
TreeAddIndexAfterAppend(interval, value) ==
    LET valuesIndex == Len(Values) + 1
        r == hierarchicalAdd(Root, interval, valuesIndex, {})
    IN  /\ ~crashed
        /\ Values' = Append(Values, value)
        /\ added' = Append(added, [interval |-> interval, value |-> value])
        /\ out' = NoCall
        /\ IF r = Overflow
           THEN crashed' = TRUE /\ Root' = Root
           ELSE crashed' = FALSE /\ Root' = r
        /\ UNCHANGED leaf

\* tree.Add(interval, value).  The value is appended before the root is
\* touched; the node Root.Add returns is the root itself.
TreeAdd(interval, value) ==
    LET valuesIndex == Len(Values)
        r == hierarchicalAdd(Root, interval, valuesIndex, {})
    IN  /\ ~crashed
        /\ Values' = Append(Values, value)
        /\ added' = Append(added, [interval |-> interval, value |-> value])
        /\ out' = NoCall
        /\ IF r = Overflow
           THEN crashed' = TRUE /\ Root' = Root
           ELSE crashed' = FALSE /\ Root' = r
        /\ UNCHANGED leaf

\* Mutant of TreeAllIntersections: the result slice is built on the store's
\* backing array (values := t.Values[:0]).
TreeAllIntersectionsOnStore(start, end) ==
    /\ ~crashed
    /\ \E r \in treeAllIntersections(Root, Values, start, end) :
          /\ out' = [op |-> "query", start |-> start, end |-> end,
                     values |-> r.values, found |-> r.found, order |-> r.order]
          /\ Values' = r.values \o
                 SubSeq(Values, Len(r.values) + 1, Len(Values))
    /\ UNCHANGED <<Root, added, crashed, leaf>>

\* tree.AllIntersections(start, end)
TreeAllIntersections(start, end) ==
    /\ ~crashed
    /\ \E r \in treeAllIntersections(Root, Values, start, end) :
          out' = [op |-> "query", start |-> start, end |-> end,
                  values |-> r.values, found |-> r.found, order |-> r.order]
    /\ UNCHANGED <<Root, Values, added, crashed, leaf>>

\* leaf = leaf.Add(interval, i), i the number of earlier calls, as in
\* TestLeafNode_Add_splitting.
LeafAdd(interval) ==
    LET r == nodeAdd(leaf, interval, Len(added), {})
    IN  /\ ~crashed
        /\ added' = Append(added, [interval |-> interval, value |-> "a"])
        /\ IF r = Overflow
           THEN crashed' = TRUE /\ leaf' = leaf
           ELSE crashed' = FALSE /\ leaf' = r
        /\ UNCHANGED <<Root, Values, out>>

(***************************************************************************)
(* Spec: every sequence of at most MaxAdds Add calls with well-formed      *)
(* intervals.  The tree never inspects a value, so one value is inserted.  *)
(***************************************************************************)
Add ==
    /\ Len(Values) < MaxAdds
    /\ \E interval \in WellFormed : TreeAdd(interval, "a")

Next == Add

Spec == Init /\ [][Next]_vars

(***************************************************************************)
(* SpecQuery: Add calls with values from Value and three intervals (one    *)
(* within a bucket, one across the buckets, one with Start > End),         *)
(* interleaved with AllIntersections calls on every query.                 *)
(***************************************************************************)
QueryIntervals ==
    {[Start |-> 0, End |-> 0], [Start |-> 1, End |-> 6],
     [Start |-> 5, End |-> 2]}

AddValue ==
    /\ Len(Values) < MaxQueryAdds
    /\ \E interval \in QueryIntervals, value \in Value : TreeAdd(interval, value)

\* The ranges SpecQuery asks for: the whole domain, one point, one bucket
\* of the root each, and two ranges across the root's buckets.
QueryRanges ==
    {[Start |-> 0, End |-> MaxUint64], [Start |-> 0, End |-> 0],
     [Start |-> 0, End |-> 3], [Start |-> 4, End |-> MaxUint64],
     [Start |-> 1, End |-> 6], [Start |-> 2, End |-> 5]}

Query == \E q \in QueryRanges : TreeAllIntersections(q.Start, q.End)

NextQuery == AddValue \/ Query

SpecQuery == Init /\ [][NextQuery]_vars

(***************************************************************************)
(* SpecLeaf: every sequence of at most MaxLeafAdds Add calls on a node     *)
(* that starts as an empty leaf, with any interval.                        *)
(***************************************************************************)
AddToLeaf ==
    /\ Len(added) < MaxLeafAdds
    /\ \E interval \in Interval : LeafAdd(interval)

NextLeaf == AddToLeaf

SpecLeaf == Init /\ [][NextLeaf]_vars

(***************************************************************************)
(* SpecCluster: longer sequences of Add calls on a node that starts as an  *)
(* empty leaf, with intervals of a few bucketMask classes: starts 0 and 1  *)
(* agree after masking and differ from 2, ends 4 and 5 agree and differ    *)
(* from 6.                                                                 *)
(***************************************************************************)
ClusterIntervals == [Start : {0, 1, 2}, End : {4, 5, 6}]

AddClustered ==
    /\ Len(added) < MaxClusterAdds
    /\ \E interval \in ClusterIntervals : LeafAdd(interval)

NextCluster == AddClustered

SpecCluster == Init /\ [][NextCluster]_vars

(***************************************************************************)
(* SpecDeep: longer sequences of Tree.Add calls with a few intervals:      *)
(* points of both buckets of the root, a short range, a range across the   *)
(* buckets, and one with Start > End in descending buckets.  Leaves are    *)
(* promoted at several levels and promoted subtrees receive later Adds.    *)
(***************************************************************************)
DeepIntervals ==
    {[Start |-> 0, End |-> 0], [Start |-> 1, End |-> 1],
     [Start |-> 2, End |-> 3], [Start |-> 4, End |-> 4],
     [Start |-> 1, End |-> 6], [Start |-> 5, End |-> 2]}

AddDeep ==
    /\ Len(Values) < MaxDeepAdds
    /\ \E interval \in DeepIntervals : TreeAdd(interval, "a")

NextDeep == AddDeep

SpecDeep == Init /\ [][NextDeep]_vars

(***************************************************************************)
(* Reference semantics: the brute-force scan of the tests                  *)
(* (getExpectedIntersections).                                             *)
(***************************************************************************)
getExpectedIntersections(start, end, intervals) ==
    {i - 1 : i \in {j \in 1 .. Len(intervals) :
        ~(end < intervals[j].Start \/ intervals[j].End < start)}}

\* The intervals passed to Add so far, in call order.
AddedIntervals == [i \in 1 .. Len(added) |-> added[i].interval]

\* How often value v occurs in the sequence s.
Occurrences(s, v) == Cardinality({i \in 1 .. Len(s) : s[i] = v})

\* Some child slot of the root holds a hierarchical node: a leaf was promoted.
Promoted == \E i \in 1 .. hierarchicalFanout : Root.Children[i].kind = "hier"

\* C1: after any sequence of Add calls with well-formed intervals that
\* returned, AllIntersections(start, end) with start <= end returns exactly
\* the multiset of the inserted values whose interval satisfies
\* end >= Start /\ start <= End, one occurrence per inserted pair, and its
\* boolean is true iff that multiset is non-empty, promoted leaves or not.
C1_MatchesBruteForce ==
    ~crashed =>
        \A q \in Queries :
            LET expected ==
                    getExpectedIntersections(q.Start, q.End, AddedIntervals)
            IN  \A r \in treeAllIntersections(Root, Values, q.Start, q.End) :
                    /\ r.found = (expected # {})
                    /\ {r.order[i] : i \in 1 .. Len(r.order)} = expected
                    /\ \A v \in Value :
                          Occurrences(r.values, v) =
                              Cardinality({k \in expected : added[k + 1].value = v})

\* C1's case: a leaf has been promoted and a query finds some but not all
\* of the inserted pairs.
C1_Witness ==
    /\ ~crashed
    /\ Promoted
    /\ Len(Values) = 3
    /\ \E q \in Queries :
          Cardinality(getExpectedIntersections(q.Start, q.End, AddedIntervals)) = 2

\* C2: Tree.Add never fails: after every sequence of Add calls the call
\* returns (the recursion through hierarchicalNode.Add and leafNode.Add,
\* promotion and replay included, terminates).
C2_AddAlwaysReturns == ~crashed

\* C3: no duplicate reporting: the value of one Add call (one value index)
\* appears at most once in what AllIntersections returns, also when its
\* interval was replicated into several buckets the query visits.
C3_NoDuplicateReporting ==
    ~crashed =>
        \A q \in Queries :
            \A r \in treeAllIntersections(Root, Values, q.Start, q.End) :
                /\ Len(r.values) = Len(r.order)
                /\ \A i, j \in 1 .. Len(r.order) :
                      r.order[i] = r.order[j] => i = j

\* C3's case: a query visits two buckets of the root that both hold the
\* same value index, one of them in a promoted subtree.
C3_Witness ==
    /\ ~crashed
    /\ Promoted
    /\ \E q \in Queries :
          \E i, j \in BucketIndex(q.Start) .. BucketIndex(q.End) :
              /\ i # j
              /\ childAllIntersections(Root, i, q.Start, q.End) \cap
                     childAllIntersections(Root, j, q.Start, q.End) # {}

\* Every value index stored in a leaf below node n.
RECURSIVE NodeIndices(_)
NodeIndices(n) ==
    IF n.kind = "leaf" THEN {n.Indices[i] : i \in 1 .. Len(n.Indices)}
    ELSE IF n.kind = "hier"
    THEN UNION {NodeIndices(n.Children[i]) : i \in 1 .. hierarchicalFanout}
    ELSE {}

\* A sequence of indices is in value-store order.
Ascending(p) == \A i, j \in 1 .. Len(p) : i < j => p[i] < p[j]

\* C4 as claimed: when AllIntersections finds at least one match, the
\* returned values are listed in value-store order (ascending value index).
C4_StoreOrder ==
    (out.op = "query" /\ out.found) => Ascending(out.order)

\* C4 as amended: when AllIntersections finds at least one match, it
\* returns the value of every matching Add call exactly once, in an order
\* that is not specified (the iteration order of the index map).
C4_EachMatchOnceAnyOrder ==
    (out.op = "query" /\ out.found) =>
        /\ Len(out.values) = Len(out.order)
        /\ Len(out.order) > 0
        /\ \A i, j \in 1 .. Len(out.order) : out.order[i] = out.order[j] => i = j
        /\ {out.order[i] : i \in 1 .. Len(out.order)} =
               nodeAllIntersections(Root, out.start, out.end)
        /\ \A i \in 1 .. Len(out.order) :
               out.values[i] = added[out.order[i] + 1].value

\* C4's case: a call returned two different values, the later insertion
\* first.
C4_Witness ==
    /\ out.op = "query"
    /\ out.found
    /\ Len(out.order) >= 2
    /\ out.order[1] > out.order[2]
    /\ out.values[1] # out.values[2]

\* C5: idempotent querying: an AllIntersections call changes neither the
\* node structure nor the value store, and when the call before it (no Add
\* in between) had the same (start, end), both return the same found flag
\* and the same multiset of values.
C5_QueryIdempotent ==
    [][out'.op = "query" =>
          /\ Root' = Root
          /\ Values' = Values
          /\ (out.op = "query" /\ out.start = out'.start /\ out.end = out'.end)
                => /\ out'.found = out.found
                   /\ \A v \in Value :
                         Occurrences(out'.values, v) = Occurrences(out.values, v)]_vars

\* C5's case: a call on a tree with a promoted leaf returned several
\* values, so that a second call can return them in another order.
C5_Witness ==
    /\ out.op = "query"
    /\ Promoted
    /\ Len(out.values) >= 2

\* C6: the value store is append-only with stable indices: after n Add
\* calls, with any intervals, the store has length n and holds the k-th
\* call's value at index k; the k-th call passes index k to the root (the
\* only index an Add can bring into the tree is the store's old length);
\* no Add and no query changes, removes or reorders an existing entry.
C6_AppendOnlyStore ==
    [][/\ Len(Values') = Len(added')
       /\ \A k \in 1 .. Len(Values') : Values'[k] = added'[k].value
       /\ \A k \in 1 .. Len(Values) : Values'[k] = Values[k]
       /\ out'.op = "query" => Values' = Values
       /\ out'.op # "query" =>
             /\ Len(Values') = Len(Values) + 1
             /\ NodeIndices(Root') \subseteq NodeIndices(Root) \cup {Len(Values)}
             /\ NodeIndices(Root) \subseteq NodeIndices(Root')
             /\ (~crashed' /\ added'[Len(added')].interval \in WellFormed)
                   => Len(Values) \in NodeIndices(Root')]_vars

\* C6's case: three Add calls, one with Start > End, two with different
\* values, and a query after them.
C6_Witness ==
    /\ Len(Values) = 3
    /\ \E k \in 1 .. 3 : added[k].interval \notin WellFormed
    /\ Values[1] # Values[2]
    /\ out.op = "query"
    /\ NodeIndices(Root) = {0, 2}

\* The plain leaf holding the pairs passed to the leaf's Add so far, the
\* k-th call (from 0) with index k.
PlainLeaf ==
    [kind |-> "leaf",
     Indices |-> [i \in 1 .. Len(added) |-> i - 1],
     Intervals |-> AddedIntervals]

\* Every interval passed to Add so far has Start <= End.
AllWellFormed == \A i \in 1 .. Len(added) : added[i].interval \in WellFormed

\* C7: promotion preserves all entries: when leafNode.Add on a leaf of
\* well-formed pairs promotes, the hierarchical node it returns answers
\* every query (start <= end) with the same set of value indices as a plain
\* leaf holding the old pairs and the new pair.
C7_PromotionPreservesEntries ==
    (~crashed /\ leaf.kind = "hier" /\ AllWellFormed) =>
        \A q \in Queries :
            nodeAllIntersections(leaf, q.Start, q.End) =
                leafAllIntersections(PlainLeaf, q.Start, q.End)

\* C7's case: the Add that promoted has returned, the replayed pairs went
\* to different children, and some query matches a replayed pair but not
\* all pairs.
C7_Witness ==
    /\ ~crashed
    /\ leaf.kind = "hier"
    /\ AllWellFormed
    /\ \A i \in 1 .. hierarchicalFanout : leaf.Children[i] # Nil
    /\ \E q \in Queries :
          /\ 0 \in nodeAllIntersections(leaf, q.Start, q.End)
          /\ nodeAllIntersections(leaf, q.Start, q.End) # NodeIndices(leaf)

\* The leaf as leafNode.Add leaves it when it appends.
Appended(l, interval, valuesIndex) ==
    [kind |-> "leaf",
     Indices |-> l.Indices \o <<valuesIndex>>,
     Intervals |-> l.Intervals \o <<interval>>]

\* The step is an Add on the leaf, which is still a leaf.
AddOnLeaf == leaf.kind = "leaf" /\ Len(added') = Len(added) + 1

\* The Add of this step took the promotion branch: it did not return the
\* leaf (it returned a hierarchical node, or never returned).
TookPromotionBranch == crashed' \/ leaf'.kind = "hier"

\* The Add of this step appended the pair and returned the same leaf.
AppendedToLeaf ==
    /\ ~crashed'
    /\ leaf' = Appended(leaf, added'[Len(added')].interval, Len(added))

\* C8 as claimed: leafNode.Add promotes exactly when the length the leaf
\* would have after the append is a positive multiple of maxLeafFanout and
\* shouldSplit() is true; otherwise it appends and returns the same leaf.
C8_ChecksLengthAfterAppend ==
    [][AddOnLeaf =>
          IF /\ (Len(leaf.Intervals) + 1) % maxLeafFanout = 0
             /\ shouldSplit(leaf)
          THEN TookPromotionBranch
          ELSE AppendedToLeaf]_vars

\* C8 as amended: leafNode.Add promotes exactly when the length the leaf
\* has before the append is a positive multiple of maxLeafFanout and
\* shouldSplit() is true (the check is made on insertion maxLeafFanout + 1,
\* 2 * maxLeafFanout + 1, ...); otherwise it appends and returns the same
\* leaf.
C8_ChecksLengthBeforeAppend ==
    [][AddOnLeaf =>
          IF /\ Len(leaf.Intervals) > 0
             /\ \E k \in 1 .. Len(leaf.Intervals) :
                   Len(leaf.Intervals) = k * maxLeafFanout
             /\ shouldSplit(leaf)
          THEN TookPromotionBranch
          ELSE AppendedToLeaf]_vars

\* C8's case: a leaf that was not promoted at length maxLeafFanout has
\* been promoted at length 2 * maxLeafFanout.
C8_Witness ==
    /\ ~crashed
    /\ leaf.kind = "hier"
    /\ Len(added) = 2 * maxLeafFanout + 1

\* C9: adding maxLeafFanout pairs to an empty leaf, whatever their
\* intervals, returns the same leaf after each Add, holding the pairs
\* unchanged and in insertion order; only a later Add can return a
\* hierarchical node.
C9_FirstAddsStayInLeaf ==
    Len(added) <= maxLeafFanout => (~crashed /\ leaf = PlainLeaf)

\* C9's case: the leaf holds maxLeafFanout pairs that shouldSplit() tells
\* apart, one of them with Start > End.
C9_Witness ==
    /\ Len(added) = maxLeafFanout
    /\ leaf.kind = "leaf"
    /\ shouldSplit(leaf)
    /\ ~AllWellFormed

\* x with its low branchingFactorPower bits cleared.
ClearLowBits(x) == (x \div Pow2(branchingFactorPower)) * Pow2(branchingFactorPower)

\* All starts agree after clearing their low bits, and so do all ends.
Agree(intervals) ==
    \A i, j \in 1 .. Len(intervals) :
        /\ ClearLowBits(intervals[i].Start) = ClearLowBits(intervals[j].Start)
        /\ ClearLowBits(intervals[i].End) = ClearLowBits(intervals[j].End)

\* C10: shouldSplit() is false exactly when all stored starts agree after
\* clearing their low bits and all stored ends do; a leaf that only ever
\* receives such intervals is never promoted, however many are added (each
\* Add appends and returns the same leaf), and its linear scan answers
\* every query with the indices of the overlapping pairs.
C10_UnsplittableLeafGrows ==
    /\ leaf.kind = "leaf" => (shouldSplit(leaf) <=> ~Agree(leaf.Intervals))
    /\ Agree(AddedIntervals) =>
          /\ ~crashed
          /\ leaf = PlainLeaf
          /\ \A q \in Queries :
                leafAllIntersections(leaf, q.Start, q.End) =
                    getExpectedIntersections(q.Start, q.End, AddedIntervals)

\* C10's case: more than 2 * maxLeafFanout agreeing but different
\* intervals went into the leaf, which passed two promotion checks.
C10_Witness ==
    /\ Len(added) = 2 * maxLeafFanout + 1
    /\ Agree(AddedIntervals)
    /\ leaf.kind = "leaf"
    /\ added[1].interval # added[2].interval

\* Two of the intervals are routed to different children by
\* hierarchicalNode.Add: they differ in the bucket of their start or in the
\* bucket of their end.
RoutedApart(intervals) ==
    \E i, j \in 1 .. Len(intervals) :
        \/ BucketIndex(intervals[i].Start) # BucketIndex(intervals[j].Start)
        \/ BucketIndex(intervals[i].End) # BucketIndex(intervals[j].End)

\* C11: the split heuristic tracks the routing that promotion performs:
\* whenever shouldSplit() is true on a leaf, at least two stored intervals
\* differ in the bucket (top digit) of their start or of their end, so the
\* new hierarchical node tells them apart; whenever shouldSplit() is false,
\* all stored intervals have the same start bucket and the same end bucket.
C11_SplitTracksRouting ==
    (leaf.kind = "leaf" /\ Len(leaf.Intervals) > 0) =>
        (shouldSplit(leaf) <=> RoutedApart(leaf.Intervals))

\* The interval child i is handed for [s, e]: s << P in the bucket of s and
\* 0 in the others, e << P in the bucket of e and MaxUint64 in the others.
Rewritten(interval, i) ==
    [Start |-> IF i = BucketIndex(interval.Start)
               THEN ShiftLeft(interval.Start) ELSE 0,
     End |-> IF i = BucketIndex(interval.End)
             THEN ShiftLeft(interval.End) ELSE MaxUint64]

\* The step is a tree.Add that returned: Root.Add, a hierarchicalNode.Add,
\* was called with the interval recorded last and the store's old length.
RootAddReturned == Len(added') = Len(added) + 1 /\ ~crashed'

\* The node in slot i (from 0) of h that an Add is called on: a new empty
\* leaf when the slot is nil.
SlotNode(h, i) ==
    IF h.Children[i + 1] = Nil THEN EmptyLeaf ELSE h.Children[i + 1]

\* C12: hierarchicalNode.Add of [s, e] with s <= e passes the pair to
\* exactly the children i with bucket(s) <= i <= bucket(e), each receiving
\* the interval rewritten for it (s << P in the bucket of s, else 0; e << P
\* in the bucket of e, else MaxUint64); every child outside that range is
\* left unchanged, and the node returned is the hierarchical node itself.
C12_RoutesRewrittenToRange ==
    [][RootAddReturned =>
          LET interval == added'[Len(added')].interval
              valuesIndex == Len(Values)
          IN  /\ Root'.kind = "hier"
              /\ \A i \in 0 .. hierarchicalFanout - 1 :
                    Root'.Children[i + 1] =
                        IF /\ BucketIndex(interval.Start) <= i
                           /\ i <= BucketIndex(interval.End)
                        THEN nodeAdd(SlotNode(Root, i), Rewritten(interval, i),
                                     valuesIndex, {})
                        ELSE Root.Children[i + 1]]_vars

\* C12's case: the last Add spanned both buckets of the root, one of which
\* holds a promoted subtree, and an earlier Add went to one bucket only,
\* leaving the other unchanged.
C12_Witness ==
    /\ ~crashed
    /\ Promoted
    /\ Len(added) = 3
    /\ BucketIndex(added[3].interval.Start) < BucketIndex(added[3].interval.End)
    /\ BucketIndex(added[1].interval.Start) = BucketIndex(added[1].interval.End)
    /\ 0 < added[3].interval.Start
    /\ added[3].interval.End < MaxUint64

\* What one Add call with value index valuesIndex can make of the node in
\* a slot: an empty slot stays empty or becomes a leaf holding the one new
\* pair; a leaf stays as it is or becomes what its own Add returns, a
\* hierarchical node only when the promotion condition held; a
\* hierarchical node stays hierarchical, its slots moving forward in turn.
RECURSIVE MovesForward(_, _, _)
MovesForward(old, new, valuesIndex) ==
    IF old = Nil
    THEN \/ new = Nil
         \/ \E interval \in Interval :
                new = Appended(EmptyLeaf, interval, valuesIndex)
    ELSE IF old.kind = "leaf"
    THEN /\ \/ new = old
            \/ \E interval \in Interval :
                   new = nodeAdd(old, interval, valuesIndex, {})
         /\ new.kind \in {"leaf", "hier"}
         /\ new.kind = "hier" => promotes(old)
    ELSE /\ new.kind = "hier"
         /\ \A i \in 1 .. hierarchicalFanout :
               MovesForward(old.Children[i], new.Children[i], valuesIndex)

\* C13: node kinds only move forward over any sequence of Add calls: the
\* root stays the hierarchical node of construction, and a returning Add
\* of a well-formed interval leaves its index in the tree (no node that an
\* Add returned is lost); an empty slot becomes a leaf only by an Add
\* routed into it; a leaf becomes hierarchical only through promotion, the
\* parent storing the returned node; a non-empty slot never becomes empty
\* and a hierarchical node never becomes a leaf.
C13_KindsMoveForward ==
    [][/\ Root.kind = "hier"
       /\ MovesForward(Root, Root', Len(Values))
       /\ (RootAddReturned /\ added'[Len(added')].interval \in WellFormed)
             => Len(Values) \in NodeIndices(Root')]_vars

\* The deepest level (the root is level 0) at which a hierarchical node
\* lies in the subtree of n, n being at level d; -1 if there is none.
RECURSIVE DeepestHier(_, _)
DeepestHier(n, d) ==
    IF n.kind # "hier" THEN -1
    ELSE LET below == {DeepestHier(n.Children[i], d + 1) :
                          i \in 1 .. hierarchicalFanout} \cup {d}
         IN  CHOOSE m \in below : \A k \in below : k <= m

\* C13's case: below the root lies a promoted subtree with a second
\* promotion inside it, one of whose slots went from empty to a leaf
\* holding only the pair of the last Add.
C13_Witness ==
    /\ ~crashed
    /\ Len(added) = MaxDeepAdds
    /\ \E i \in 1 .. hierarchicalFanout :
          /\ DeepestHier(Root.Children[i], 1) = 2
          /\ \E j \in 1 .. hierarchicalFanout :
                /\ Root.Children[i].Children[j].kind = "leaf"
                /\ NodeIndices(Root.Children[i].Children[j]) = {MaxDeepAdds - 1}

\* The interval has Start > End and its start bucket is greater than its
\* end bucket.
DescendingBuckets(interval) ==
    /\ interval.Start > interval.End
    /\ BucketIndex(interval.Start) > BucketIndex(interval.End)

\* C14: malformed intervals are routed as given: a Tree.Add of an interval
\* with Start > End whose start bucket is greater than its end bucket does
\* not fail, appends its value to the store, and stores the interval in no
\* node, so that no AllIntersections call after it, whatever its arguments
\* (start > end included), returns that Add's value.
C14_DescendingBucketsStoredNowhere ==
    \A k \in 1 .. Len(added) :
        DescendingBuckets(added[k].interval) =>
            /\ ~(crashed /\ k = Len(added))
            /\ k <= Len(Values)
            /\ Values[k] = added[k].value
            /\ (k - 1) \notin NodeIndices(Root)
            /\ out.op = "query" =>
                  \A i \in 1 .. Len(out.order) : out.order[i] # k - 1
            /\ ~crashed =>
                  \A q \in Interval :
                      \A r \in treeAllIntersections(Root, Values, q.Start, q.End) :
                          \A i \in 1 .. Len(r.order) : r.order[i] # k - 1

\* C14's case: the second of three Adds had descending buckets, the other
\* two intervals are stored, and a query over the whole domain returned
\* two values.
C14_Witness ==
    /\ Len(added) = 3
    /\ DescendingBuckets(added[2].interval)
    /\ out.op = "query"
    /\ out.start = 0
    /\ out.end = MaxUint64
    /\ Len(out.values) = 2

\* Every leaf in the subtree of n pairs each interval with one index.
RECURSIVE ParallelLists(_)
ParallelLists(n) ==
    IF n.kind = "leaf" THEN Len(n.Intervals) = Len(n.Indices)
    ELSE IF n.kind = "hier"
    THEN \A i \in 1 .. hierarchicalFanout : ParallelLists(n.Children[i])
    ELSE TRUE

\* C15: in every reachable tree state every leaf has Intervals and Indices
\* of equal length, and every index stored in a leaf is a position of the
\* value store (0 <= index < len(Values)), so that t.Values[index] in
\* AllIntersections is never out of range.
C15_IndicesWithinStore ==
    /\ ParallelLists(Root)
    /\ \A index \in NodeIndices(Root) : 0 <= index /\ index < Len(Values)

\* C15's case: after the longest run the tree has leaves two levels of
\* promotion deep that hold the last index of the store, and one Add's
\* index is in the store but in no leaf.
C15_Witness ==
    /\ ~crashed
    /\ Len(Values) = MaxDeepAdds
    /\ DeepestHier(Root, 0) = 2
    /\ (MaxDeepAdds - 1) \in NodeIndices(Root)
    /\ Cardinality(NodeIndices(Root)) = MaxDeepAdds - 1

\* The number of radix digits of a word: 64 / 4 in the source.
Digits == WordBits \div branchingFactorPower

\* The leaves in the subtree of n (n at level d, the root at level 0) that
\* lie at level Digits or deeper: every bit of the endpoints passed to the
\* tree has been shifted out of their entries.
RECURSIVE ExhaustedLeaves(_, _)
ExhaustedLeaves(n, d) ==
    IF n.kind = "leaf" THEN (IF d >= Digits THEN {n} ELSE {})
    ELSE IF n.kind = "hier"
    THEN UNION {ExhaustedLeaves(n.Children[i], d + 1) :
                   i \in 1 .. hierarchicalFanout}
    ELSE {}

\* C16: the tree's depth is bounded by the number of radix digits: in
\* every reachable state no hierarchical node lies more than Digits levels
\* below the root, because a leaf whose entries have had all their
\* endpoint bits shifted out is never promoted (the promotion condition of
\* leafNode.Add is false on it).
C16_DepthBoundedByDigits ==
    /\ DeepestHier(Root, 0) <= Digits
    /\ \A l \in ExhaustedLeaves(Root, 0) : ~promotes(l)

====
